---- MODULE Spec2Model ----
(***************************************************************************)
(* Document indexing and retrieval engine of the Sitecore Design MCP       *)
(* server: filename validation, the parse paths with the process-wide      *)
(* document cache, keyword scoring and the search_documentation handlers   *)
(* of the stdio server (listed in README.md) and of the serverless         *)
(* function (api/mcp.ts).                                                  *)
(*                                                                         *)
(* Strings are sequences of one-character strings.                         *)
(***************************************************************************)
EXTENDS Integers, Sequences, FiniteSets, TLC

VARIABLES
    fs,             \* storage: type -> filename -> file content or Absent
    documentCache,  \* the process-wide Map: key -> ParsedDocument or NoDoc
    calls,          \* slot -> the tool call that runs in it, or ran last
    started,        \* number of tool calls started so far
    nextInst,       \* identity of the next ParsedDocument object to be created
    fsChanges,      \* number of storage changes made by the environment
    parseCount,     \* key -> number of parses (file read + extraction) begun
    parseFailed,    \* key -> number of those parses that ended in an error
    returned,       \* key -> identities of the documents completed calls got
    fnIn,           \* input of the pure function under study
    fnOut           \* its output once it has been applied

sysVars == <<fs, documentCache, calls, started, nextInst, fsChanges,
             parseCount, parseFailed, returned>>
vars == <<fs, documentCache, calls, started, nextInst, fsChanges,
          parseCount, parseFailed, returned, fnIn, fnOut>>

NotRun == [done |-> FALSE]
Result(value) == [done |-> TRUE, value |-> value]

----------------------------------------------------------------------------
(* Strings *)

Letters == {"a", "b", "c", "d", "f", "h", "p", "s", "v", "A", "C", "S", "V"}

toLowerChar(ch) ==
    CASE ch = "A" -> "a"
      [] ch = "C" -> "c"
      [] ch = "S" -> "s"
      [] ch = "V" -> "v"
      [] OTHER -> ch

toLowerCase(s) == [i \in 1..Len(s) |-> toLowerChar(s[i])]

includes(s, sub) ==
    \E i \in 0..(Len(s) - Len(sub)) : SubSeq(s, i + 1, i + Len(sub)) = sub

startsWith(s, p) == Len(p) <= Len(s) /\ SubSeq(s, 1, Len(p)) = p

endsWith(s, p) ==
    Len(p) <= Len(s) /\ SubSeq(s, Len(s) - Len(p) + 1, Len(s)) = p

IsSpace(ch) == ch \in {" ", "\n", "\r", "\t"}

RECURSIVE trimStart(_)
trimStart(s) ==
    IF s # <<>> /\ IsSpace(Head(s)) THEN trimStart(Tail(s)) ELSE s

RECURSIVE trimEnd(_)
trimEnd(s) ==
    IF s # <<>> /\ IsSpace(s[Len(s)])
    THEN trimEnd(SubSeq(s, 1, Len(s) - 1))
    ELSE s

trim(s) == trimEnd(trimStart(s))

\* Array.prototype.slice(0, end): a negative end counts from the end
slice0(seq, end) ==
    LET e == IF end < 0
             THEN (IF Len(seq) + end < 0 THEN 0 ELSE Len(seq) + end)
             ELSE (IF end > Len(seq) THEN Len(seq) ELSE end)
    IN  SubSeq(seq, 1, e)

----------------------------------------------------------------------------
(* validateFilename *)

\* the drive-letter test /^[A-Za-z]:/
HasDrivePrefix(filename) ==
    Len(filename) >= 2 /\ filename[1] \in Letters /\ filename[2] = ":"

\* the variant that forgets the drive-letter test
validateFilename_NoDrive(filename) ==
    IF Len(filename) = 0 THEN "empty"
    ELSE IF \/ includes(filename, <<".", ".">>)
            \/ includes(filename, <<"/">>)
            \/ includes(filename, <<"\\">>)
         THEN "traversal"
    ELSE IF startsWith(filename, <<"/">>) THEN "absolute"
    ELSE "ok"

\* "ok", or which of the three throws rejects the filename
validateFilename(filename) ==
    IF Len(filename) = 0 THEN "empty"
    ELSE IF \/ includes(filename, <<".", ".">>)
            \/ includes(filename, <<"/">>)
            \/ includes(filename, <<"\\">>)
         THEN "traversal"
    ELSE IF startsWith(filename, <<"/">>) \/ HasDrivePrefix(filename)
         THEN "absolute"
    ELSE "ok"

----------------------------------------------------------------------------
(* chunkText *)

DefaultChunkSize == 1000
DefaultOverlap == 200

\* text.split(/(?<=[.!?])\s+/): cut at every run of whitespace that follows
\* a sentence terminator; the run itself is dropped
RECURSIVE SkipSpaces(_, _)
SkipSpaces(text, i) ==
    IF i <= Len(text) /\ IsSpace(text[i]) THEN SkipSpaces(text, i + 1) ELSE i

RECURSIVE SplitSentencesFrom(_, _, _)
SplitSentencesFrom(text, start, i) ==
    LET cuts == {j \in i..Len(text) :
                    j > 1 /\ text[j - 1] \in {".", "!", "?"} /\ IsSpace(text[j])}
    IN  IF cuts = {} THEN <<SubSeq(text, start, Len(text))>>
        ELSE LET cut == CHOOSE j \in cuts : \A k \in cuts : j <= k
                 next == SkipSpaces(text, cut)
             IN  <<SubSeq(text, start, cut - 1)>>
                     \o SplitSentencesFrom(text, next, next)

splitSentences(text) == SplitSentencesFrom(text, 1, 1)

\* s.split(" "): cut at every single space, keeping empty pieces
RECURSIVE SplitOnSpaceFrom(_, _, _)
SplitOnSpaceFrom(s, start, i) ==
    LET cuts == {j \in i..Len(s) : s[j] = " "}
    IN  IF cuts = {} THEN <<SubSeq(s, start, Len(s))>>
        ELSE LET cut == CHOOSE j \in cuts : \A k \in cuts : j <= k
             IN  <<SubSeq(s, start, cut - 1)>>
                     \o SplitOnSpaceFrom(s, cut + 1, cut + 1)

splitOnSpace(s) == SplitOnSpaceFrom(s, 1, 1)

\* pieces.join(sep)
RECURSIVE join(_, _)
join(pieces, sep) ==
    IF pieces = <<>> THEN <<>>
    ELSE IF Len(pieces) = 1 THEN pieces[1]
    ELSE pieces[1] \o sep \o join(Tail(pieces), sep)

\* Array.prototype.slice(start) for any integer start
sliceFrom(seq, start) ==
    LET from == IF start < 0
                THEN (IF Len(seq) + start < 0 THEN 0 ELSE Len(seq) + start)
                ELSE (IF start > Len(seq) THEN Len(seq) ELSE start)
    IN  SubSeq(seq, from + 1, Len(seq))

\* Math.floor(a / 5)
FloorDiv5(a) == a \div 5

\* words.slice(-Math.floor(overlap / 5)): -0 is 0, so the whole array
overlapWords(currentChunk, overlap) ==
    sliceFrom(splitOnSpace(currentChunk), 0 - FloorDiv5(overlap))

\* one round of the for loop: st is [chunks, currentChunk]
chunkStep(st, sentence, chunkSize, overlap) ==
    IF Len(st.currentChunk) + Len(sentence) > chunkSize
          /\ Len(st.currentChunk) > 0
    THEN [chunks |-> Append(st.chunks, trim(st.currentChunk)),
          currentChunk |->
              join(overlapWords(st.currentChunk, overlap), <<" ">>)
                  \o <<" ">> \o sentence]
    ELSE [chunks |-> st.chunks,
          currentChunk |->
              st.currentChunk
                  \o (IF st.currentChunk # <<>> THEN <<" ">> ELSE <<>>)
                  \o sentence]

RECURSIVE chunkLoop(_, _, _, _)
chunkLoop(st, sentences, chunkSize, overlap) ==
    IF sentences = <<>> THEN st
    ELSE chunkLoop(chunkStep(st, Head(sentences), chunkSize, overlap),
                   Tail(sentences), chunkSize, overlap)

chunkText(text, chunkSize, overlap) ==
    LET st == chunkLoop([chunks |-> <<>>, currentChunk |-> <<>>],
                        splitSentences(text), chunkSize, overlap)
    IN  IF trim(st.currentChunk) # <<>>
        THEN Append(st.chunks, trim(st.currentChunk))
        ELSE st.chunks

----------------------------------------------------------------------------
(* parseCSVLine and the text a CSV file is turned into *)

\* one round of the for loop over the characters of the line;
\* st is [values, current, inQuotes, skip]
csvLineStep(st, line, i) ==
    IF st.skip THEN [st EXCEPT !.skip = FALSE]
    ELSE IF line[i] = "\""
         THEN IF st.inQuotes /\ i + 1 <= Len(line) /\ line[i + 1] = "\""
              THEN [st EXCEPT !.current = Append(@, "\""), !.skip = TRUE]
              ELSE [st EXCEPT !.inQuotes = ~@]
    ELSE IF line[i] = "," /\ ~st.inQuotes
         THEN [st EXCEPT !.values = Append(@, trim(st.current)),
                         !.current = <<>>]
    ELSE [st EXCEPT !.current = Append(@, line[i])]

RECURSIVE csvLineLoop(_, _, _)
csvLineLoop(st, line, i) ==
    IF i > Len(line) THEN st
    ELSE csvLineLoop(csvLineStep(st, line, i), line, i + 1)

parseCSVLine(line) ==
    LET st == csvLineLoop([values |-> <<>>, current |-> <<>>,
                           inQuotes |-> FALSE, skip |-> FALSE], line, 1)
    IN  Append(st.values, trim(st.current))

\* csvContent.split(/\r?\n/)
RECURSIVE SplitLinesFrom(_, _, _)
SplitLinesFrom(s, start, i) ==
    LET cuts == {j \in i..Len(s) : s[j] = "\n"}
    IN  IF cuts = {} THEN <<SubSeq(s, start, Len(s))>>
        ELSE LET cut == CHOOSE j \in cuts : \A k \in cuts : j <= k
                 end == IF cut - 1 >= start /\ s[cut - 1] = "\r"
                        THEN cut - 2 ELSE cut - 1
             IN  <<SubSeq(s, start, end)>>
                     \o SplitLinesFrom(s, cut + 1, cut + 1)

\* the variant without the filter: blank lines count as lines
nonBlankLines_KeepBlank(csvContent) ==
    SplitLinesFrom(csvContent, 1, 1)

\* .filter(line => line.trim())
nonBlankLines(csvContent) ==
    SelectSeq(SplitLinesFrom(csvContent, 1, 1), LAMBDA line : trim(line) # <<>>)

\* values[i] || "" for i below headerCount
paddedValue(values, i) == IF i <= Len(values) THEN values[i] ELSE <<>>

\* the variant that leaves the headers out of a row
csvRowText_ValuesOnly(headers, row) ==
    LET values == parseCSVLine(row)
    IN  join([i \in 1..Len(headers) |-> paddedValue(values, i)],
             <<" ", "|", " ">>)

\* the variant without padding: a short row names only the headers it has
\* values for
csvRowText_NoPadding(headers, row) ==
    LET values == parseCSVLine(row)
        count == IF Len(values) < Len(headers) THEN Len(values)
                 ELSE Len(headers)
    IN  join([i \in 1..count |-> headers[i] \o <<":", " ">> \o values[i]],
             <<" ", "|", " ">>)

\* headers.map((header, i) => `${header}: ${paddedValues[i]}`).join(" | ")
csvRowText(headers, row) ==
    LET values == parseCSVLine(row)
    IN  join([i \in 1..Len(headers) |->
                 headers[i] \o <<":", " ">> \o paddedValue(values, i)],
             <<" ", "|", " ">>)

\* the textContent of a file with at least one non-blank line
csvTextContent(lines) ==
    LET headers == parseCSVLine(lines[1])
    IN  join([r \in 1..(Len(lines) - 1) |-> csvRowText(headers, lines[r + 1])],
             <<"\n", "\n">>)

----------------------------------------------------------------------------
(* searchDocument *)

\* query.toLowerCase().split(/\s+/): cut at every run of whitespace
RECURSIVE SplitWhitespaceFrom(_, _, _)
SplitWhitespaceFrom(s, start, i) ==
    IF i > Len(s) THEN <<SubSeq(s, start, Len(s))>>
    ELSE IF IsSpace(s[i])
         THEN LET next == SkipSpaces(s, i)
              IN  <<SubSeq(s, start, i - 1)>> \o SplitWhitespaceFrom(s, next, next)
    ELSE SplitWhitespaceFrom(s, start, i + 1)

\* .filter(term => term.length > 2)
queryTerms(query) ==
    SelectSeq(SplitWhitespaceFrom(toLowerCase(query), 1, 1),
              LAMBDA term : Len(term) > 2)

\* new RegExp(term, "gi"): the term is the pattern, so "." in it stands for
\* any character but a line terminator; the other characters of the
\* alphabet stand for themselves (the content is already lower-cased)
patternCharMatches(p, ch) ==
    IF p = "." THEN ch \notin {"\n", "\r"} ELSE toLowerChar(p) = toLowerChar(ch)

regexMatchesAt(term, content, i) ==
    /\ i + Len(term) - 1 <= Len(content)
    /\ \A j \in 1..Len(term) : patternCharMatches(term[j], content[i + j - 1])

\* lowerContent.match(regex): the matches found left to right, each search
\* resuming behind the previous match; matches.length, 0 for null
RECURSIVE matchCountFrom(_, _, _)
matchCountFrom(term, content, i) ==
    IF i + Len(term) - 1 > Len(content) THEN 0
    ELSE IF regexMatchesAt(term, content, i)
         THEN 1 + matchCountFrom(term, content, i + Len(term))
    ELSE matchCountFrom(term, content, i + 1)

RECURSIVE termScore(_, _)
termScore(terms, lowerContent) ==
    IF terms = <<>> THEN 0
    ELSE matchCountFrom(Head(terms), lowerContent, 1)
             + termScore(Tail(terms), lowerContent)

PhraseBonus == 10

chunkScore(content, query) ==
    LET lowerContent == toLowerCase(content)
    IN  termScore(queryTerms(query), lowerContent)
            + (IF includes(lowerContent, toLowerCase(query))
               THEN PhraseBonus ELSE 0)

\* Array.prototype.sort with (a, b) => b.score - a.score: stable, so equal
\* scores keep their order; an insertion sort by descending score
RECURSIVE insertByScore(_, _)
insertByScore(sorted, item) ==
    IF sorted = <<>> THEN <<item>>
    ELSE IF sorted[Len(sorted)].score >= item.score THEN Append(sorted, item)
    ELSE Append(insertByScore(SubSeq(sorted, 1, Len(sorted) - 1), item),
                sorted[Len(sorted)])

RECURSIVE sortByScore(_)
sortByScore(items) ==
    IF items = <<>> THEN <<>>
    ELSE insertByScore(sortByScore(SubSeq(items, 1, Len(items) - 1)),
                       items[Len(items)])

\* the chunks of doc that score above 0, best first, at most topK of them
searchDocument(doc, query, topK) ==
    LET scoredChunks == [i \in 1..Len(doc.chunks) |->
                            [chunk |-> doc.chunks[i],
                             score |-> chunkScore(doc.chunks[i].content, query)]]
        kept == SelectSeq(scoredChunks, LAMBDA sc : sc.score > 0)
        top == slice0(sortByScore(kept), topK)
    IN  [i \in 1..Len(top) |-> top[i].chunk]

----------------------------------------------------------------------------
(* Storage, parsed documents and the two parse paths *)

Types == {"csv", "pdf"}

\* A file: raw is what readFileSync(path, "utf-8") returns; for a file handed
\* to pdf-parse, ok tells whether extraction succeeds, raw is the text it
\* extracts and pages the numpages it reports.
AbsentFile == [present |-> FALSE, raw |-> <<>>, pages |-> 0, ok |-> FALSE]
File(raw, pages, ok) == [present |-> TRUE, raw |-> raw, pages |-> pages, ok |-> ok]

NoChunks == <<>>
NoDoc == [inst |-> 0, filename |-> <<>>, type |-> "none", fullText |-> <<>>,
          chunks |-> NoChunks, pageCount |-> 0]

NameCsvA == <<"a", ".", "c", "s", "v">>
NamePdfA == <<"a", ".", "p", "d", "f">>
NameDots == <<".", ".">>

\* the names a directory entry can have in the model, in readdir order
DiskNames == {NameCsvA, NamePdfA}
\* the filenames a caller passes
ArgNames == {NameCsvA, NamePdfA, NameDots}
Keys == Types \X ArgNames

\* the variant whose key is the filename alone
CacheKey_NameOnly(type, filename) == <<"csv", filename>>

CacheKey(type, filename) == <<type, filename>>

\* the variant that looks under the roots of both types
existsSync_AnyRoot(storage, type, filename) ==
    \E t \in Types :
        /\ storage[t].exists
        /\ filename \in DiskNames
        /\ storage[t].files[filename].present

existsSync(storage, type, filename) ==
    /\ storage[type].exists
    /\ filename \in DiskNames
    /\ storage[type].files[filename].present

\* what one run of parseCSV / parsePDF did, up to its first suspension:
\*   state      "resolved", "rejected" or "extracting" (awaiting pdf-parse)
\*   lookedUp   documentCache.has was evaluated
\*   accessedFs existsSync or readFileSync was evaluated
\*   read       readFileSync was evaluated
\*   wroteCache documentCache.set was evaluated, with doc
Effect(state, doc, error, lookedUp, accessedFs, read, wroteCache, buffer) ==
    [state |-> state, doc |-> doc, error |-> error, lookedUp |-> lookedUp,
     accessedFs |-> accessedFs, read |-> read, wroteCache |-> wroteCache,
     buffer |-> buffer]

NoParse == Effect("none", NoDoc, "none", FALSE, FALSE, FALSE, FALSE, AbsentFile)

csvChunks(textContent) ==
    LET texts == chunkText(textContent, DefaultChunkSize, DefaultOverlap)
    IN  [i \in 1..Len(texts) |->
            [content |-> texts[i], pageNumber |-> 1, chunkIndex |-> i - 1]]

ChunksPerPage == 3

\* the variant that counts the chunks of a page from one
pdfChunks_PageFromOne(text) ==
    LET texts == chunkText(text, DefaultChunkSize, DefaultOverlap)
    IN  [i \in 1..Len(texts) |->
            [content |-> texts[i],
             pageNumber |-> (i \div ChunksPerPage) + 1,
             chunkIndex |-> i - 1]]

pdfChunks(text) ==
    LET texts == chunkText(text, DefaultChunkSize, DefaultOverlap)
    IN  [i \in 1..Len(texts) |->
            [content |-> texts[i],
             pageNumber |-> ((i - 1) \div ChunksPerPage) + 1,
             chunkIndex |-> i - 1]]

csvDocument(filename, lines, inst) ==
    LET textContent == csvTextContent(lines)
    IN  [inst |-> inst, filename |-> filename, type |-> "csv",
         fullText |-> textContent, chunks |-> csvChunks(textContent),
         pageCount |-> 1]

pdfDocument(filename, pdfData, inst) ==
    [inst |-> inst, filename |-> filename, type |-> "pdf",
     fullText |-> pdfData.raw,
     chunks |-> pdfChunks(pdfData.raw), pageCount |-> pdfData.pages]

\* the variant that stores the document before it checks for an empty file
parseCSV_StoreFirst(filename, cache, storage, inst) ==
    LET cacheKey == CacheKey("csv", filename)
    IN  IF validateFilename(filename) # "ok"
        THEN Effect("rejected", NoDoc, "validation",
                    FALSE, FALSE, FALSE, FALSE, AbsentFile)
        ELSE IF cache[cacheKey] # NoDoc
        THEN Effect("resolved", cache[cacheKey], "none",
                    TRUE, FALSE, FALSE, FALSE, AbsentFile)
        ELSE IF ~existsSync(storage, "csv", filename)
        THEN Effect("rejected", NoDoc, "notFound",
                    TRUE, TRUE, FALSE, FALSE, AbsentFile)
        ELSE LET lines == nonBlankLines(storage["csv"].files[filename].raw)
             IN  IF Len(lines) = 0
                 THEN Effect("rejected",
                             [NoDoc EXCEPT !.inst = inst, !.filename = filename,
                                           !.type = "csv", !.pageCount = 1],
                             "empty", TRUE, TRUE, TRUE, TRUE, AbsentFile)
                 ELSE Effect("resolved", csvDocument(filename, lines, inst),
                             "none", TRUE, TRUE, TRUE, TRUE, AbsentFile)

\* parseCSV has no suspension point: it runs from validation to the return
parseCSV(filename, cache, storage, inst) ==
    LET cacheKey == CacheKey("csv", filename)
    IN  IF validateFilename(filename) # "ok"
        THEN Effect("rejected", NoDoc, "validation",
                    FALSE, FALSE, FALSE, FALSE, AbsentFile)
        ELSE IF cache[cacheKey] # NoDoc
        THEN Effect("resolved", cache[cacheKey], "none",
                    TRUE, FALSE, FALSE, FALSE, AbsentFile)
        ELSE IF ~existsSync(storage, "csv", filename)
        THEN Effect("rejected", NoDoc, "notFound",
                    TRUE, TRUE, FALSE, FALSE, AbsentFile)
        ELSE LET lines == nonBlankLines(storage["csv"].files[filename].raw)
             IN  IF Len(lines) = 0
                 THEN Effect("rejected", NoDoc, "empty",
                             TRUE, TRUE, TRUE, FALSE, AbsentFile)
                 ELSE Effect("resolved", csvDocument(filename, lines, inst),
                             "none", TRUE, TRUE, TRUE, TRUE, AbsentFile)

\* the variant that consults the cache before it validates the filename
parsePDF_LookupFirst(filename, cache, storage, inst) ==
    LET cacheKey == CacheKey("pdf", filename)
    IN  IF cache[cacheKey] # NoDoc
        THEN Effect("resolved", cache[cacheKey], "none",
                    TRUE, FALSE, FALSE, FALSE, AbsentFile)
        ELSE IF validateFilename(filename) # "ok"
        THEN Effect("rejected", NoDoc, "validation",
                    TRUE, FALSE, FALSE, FALSE, AbsentFile)
        ELSE IF ~existsSync(storage, "pdf", filename)
        THEN Effect("rejected", NoDoc, "notFound",
                    TRUE, TRUE, FALSE, FALSE, AbsentFile)
        ELSE Effect("extracting", NoDoc, "none",
                    TRUE, TRUE, TRUE, FALSE, storage["pdf"].files[filename])

\* the variant whose cache key leaves out the type: a parsed CSV document of
\* the same filename is taken for the PDF document
parsePDF_KeyWithoutType(filename, cache, storage, inst) ==
    IF validateFilename(filename) # "ok"
    THEN Effect("rejected", NoDoc, "validation",
                FALSE, FALSE, FALSE, FALSE, AbsentFile)
    ELSE IF \E type \in Types : cache[CacheKey(type, filename)] # NoDoc
    THEN Effect("resolved",
                cache[CacheKey(CHOOSE type \in Types :
                                   cache[CacheKey(type, filename)] # NoDoc,
                               filename)],
                "none", TRUE, FALSE, FALSE, FALSE, AbsentFile)
    ELSE IF ~existsSync(storage, "pdf", filename)
    THEN Effect("rejected", NoDoc, "notFound",
                TRUE, TRUE, FALSE, FALSE, AbsentFile)
    ELSE Effect("extracting", NoDoc, "none",
                TRUE, TRUE, TRUE, FALSE, storage["pdf"].files[filename])

\* parsePDF up to `await pdfParse(dataBuffer)`
parsePDF(filename, cache, storage, inst) ==
    LET cacheKey == CacheKey("pdf", filename)
    IN  IF validateFilename(filename) # "ok"
        THEN Effect("rejected", NoDoc, "validation",
                    FALSE, FALSE, FALSE, FALSE, AbsentFile)
        ELSE IF cache[cacheKey] # NoDoc
        THEN Effect("resolved", cache[cacheKey], "none",
                    TRUE, FALSE, FALSE, FALSE, AbsentFile)
        ELSE IF ~existsSync(storage, "pdf", filename)
        THEN Effect("rejected", NoDoc, "notFound",
                    TRUE, TRUE, FALSE, FALSE, AbsentFile)
        ELSE Effect("extracting", NoDoc, "none",
                    TRUE, TRUE, TRUE, FALSE, storage["pdf"].files[filename])

\* parsePDF from the point pdfParse settles: it throws on a buffer it cannot
\* read, else the document is built and stored
parsePDFResume(filename, before, inst) ==
    IF ~before.buffer.ok
    THEN [before EXCEPT !.state = "rejected", !.error = "extraction"]
    ELSE [before EXCEPT !.state = "resolved",
                        !.doc = pdfDocument(filename, before.buffer, inst),
                        !.wroteCache = TRUE]

parseDocument(filename, type, cache, storage, inst) ==
    IF type = "csv"
    THEN parseCSV(filename, cache, storage, inst)
    ELSE parsePDF(filename, cache, storage, inst)

----------------------------------------------------------------------------
(* The catalog *)

\* names a directory can hold besides those a caller asks for
NameUpperCsv == <<"a", ".", "C", "S", "V">>
NameNoDot == <<"c", "s", "v">>
NameNoExt == <<"a">>

\* the order readdirSync lists the names of a directory in
ReaddirOrder == <<NameNoExt, NameUpperCsv, NameCsvA, NamePdfA, NameNoDot>>

\* the variant without the filter: every entry of the directory
listWithExtension_Unfiltered(storage, type, ext) ==
    IF ~storage[type].exists THEN <<>>
    ELSE SelectSeq(ReaddirOrder,
                   LAMBDA n : /\ n \in DOMAIN storage[type].files
                              /\ storage[type].files[n].present)

\* if (!existsSync(dir)) return [];
\* readdirSync(dir).filter(file => file.toLowerCase().endsWith(ext))
listWithExtension(storage, type, ext) ==
    IF ~storage[type].exists THEN <<>>
    ELSE SelectSeq(ReaddirOrder,
                   LAMBDA n : /\ n \in DOMAIN storage[type].files
                              /\ storage[type].files[n].present
                              /\ endsWith(toLowerCase(n), ext))

getAvailableCSVs(storage) ==
    listWithExtension(storage, "csv", <<".", "c", "s", "v">>)

getAvailablePDFs(storage) ==
    listWithExtension(storage, "pdf", <<".", "p", "d", "f">>)

withType(files, type) ==
    [i \in 1..Len(files) |-> [filename |-> files[i], type |-> type]]

getAllDocuments(storage) ==
    withType(getAvailableCSVs(storage), "csv")
        \o withType(getAvailablePDFs(storage), "pdf")

----------------------------------------------------------------------------
(* Tool calls.  A handler runs without interruption from one await to the   *)
(* next: up to `await parseDocument(...)`, whose promise parseCSV settles    *)
(* at once and parsePDF settles when pdf-parse does, and on from there.      *)

DefaultTopK == 5

\* stdio: the schema's .default(5) and the parameter default `topK = 5`
\* http:  (args.topK as number) || 5, so 0 counts as missing too
effectiveTopK(server, topK) ==
    IF ~topK.given THEN DefaultTopK
    ELSE IF server = "http" /\ topK.value = 0 THEN DefaultTopK
    ELSE topK.value

NoResult == [kind |-> "none", isError |-> FALSE, records |-> <<>>, inst |-> 0]

NewCall(tool, server, filename, type, query, topK) ==
    [tool |-> tool, server |-> server, filename |-> filename, type |-> type,
     query |-> query, topK |-> topK, pc |-> "await", docs |-> <<>>, idx |-> 0,
     allResults |-> <<>>, parse |-> NoParse, prior |-> {}, skipped |-> 0,
     result |-> NoResult]

\* the calls that overlap in time each have a slot; a call that has
\* returned leaves its record behind until a new call takes the slot
MaxActive == 2
Slots == 1..MaxActive

IdleCall ==
    [NewCall("none", "none", <<>>, "none", <<>>, [given |-> FALSE, value |-> 0])
        EXCEPT !.pc = "idle"]

IsFree(c) == calls[c].pc \in {"idle", "done"}
FreeSlot(c) == IsFree(c) /\ \A d \in Slots : d < c => ~IsFree(d)

\* the bookkeeping of one run of a parse path over key: the cache write if
\* it made one, and the counts the properties below are stated over
Settle(key, eff, begins) ==
    /\ documentCache' = IF eff.wroteCache
                        THEN [documentCache EXCEPT ![key] = eff.doc]
                        ELSE documentCache
    /\ nextInst' = IF eff.doc.inst = nextInst THEN nextInst + 1 ELSE nextInst
    /\ parseCount' = IF begins /\ eff.read
                     THEN [parseCount EXCEPT ![key] = @ + 1]
                     ELSE parseCount
    /\ parseFailed' = IF eff.read /\ eff.state = "rejected"
                      THEN [parseFailed EXCEPT ![key] = @ + 1]
                      ELSE parseFailed
    /\ returned' = IF eff.state = "resolved"
                   THEN [returned EXCEPT ![key] = @ \cup {eff.doc.inst}]
                   ELSE returned

\* call c, whose record is otherwise rec, calls parseDocument(filename, type)
BeginParse(c, rec, filename, type) ==
    LET eff == parseDocument(filename, type, documentCache, fs, nextInst)
        key == CacheKey(type, filename)
    IN  /\ calls' = [calls EXCEPT ![c] = [rec EXCEPT !.parse = eff,
                                                     !.prior = returned[key]]]
        /\ Settle(key, eff, TRUE)

\* the document the call is parsing
CurrentDoc(rec) ==
    IF rec.tool = "search_documentation"
    THEN rec.docs[rec.idx]
    ELSE [filename |-> rec.filename, type |-> rec.type]

\* get_document_content and get_document_summary: await parseDocument
GetDocument(c, tool, server, filename, type) ==
    /\ FreeSlot(c)
    /\ BeginParse(c,
                  NewCall(tool, server, filename, type, <<>>,
                          [given |-> FALSE, value |-> 0]),
                  filename, type)
    /\ started' = started + 1
    /\ UNCHANGED <<fs, fsChanges, fnIn, fnOut>>

\* the candidate documents of a search
\* the variant that searches the documents of that name when a filename
\* comes without a type
documentsToSearch_FilenameAlone(storage, filename, type) ==
    IF filename # <<>> /\ type # "none"
    THEN <<[filename |-> filename, type |-> type]>>
    ELSE IF type # "none"
    THEN withType(IF type = "csv" THEN getAvailableCSVs(storage)
                                  ELSE getAvailablePDFs(storage), type)
    ELSE IF filename # <<>>
    THEN SelectSeq(getAllDocuments(storage),
                   LAMBDA doc : doc.filename = filename)
    ELSE getAllDocuments(storage)

documentsToSearch(storage, filename, type) ==
    IF filename # <<>> /\ type # "none"
    THEN <<[filename |-> filename, type |-> type]>>
    ELSE IF type # "none"
    THEN withType(IF type = "csv" THEN getAvailableCSVs(storage)
                                  ELSE getAvailablePDFs(storage), type)
    ELSE getAllDocuments(storage)

\* search_documentation up to the first await: the candidates, then
\* parseDocument of the first one
SearchDocumentation(c, server, query, filename, type, topK) ==
    LET docs == documentsToSearch(fs, filename, type)
        rec == [NewCall("search_documentation", server, filename, type,
                        query, topK) EXCEPT !.docs = docs]
    IN  /\ FreeSlot(c)
        /\ started' = started + 1
        /\ IF docs = <<>>
           THEN /\ calls' = [calls EXCEPT ![c] =
                        [rec EXCEPT !.pc = "done",
                                    !.result = [NoResult EXCEPT
                                                   !.kind = "noDocuments"]]]
                /\ UNCHANGED <<documentCache, nextInst, parseCount,
                               parseFailed, returned>>
           ELSE BeginParse(c, [rec EXCEPT !.idx = 1],
                           docs[1].filename, docs[1].type)
        /\ UNCHANGED <<fs, fsChanges, fnIn, fnOut>>

\* the variant without the test for an empty catalog
listOutcome_AlwaysListing(storage) ==
    [NoResult EXCEPT !.kind = "listing",
                     !.records = withType(getAvailableCSVs(storage), "csv")
                                     \o withType(getAvailablePDFs(storage), "pdf")]

\* the variant that also lists the documents the cache holds
listOutcome_WithCached(storage) ==
    LET cached(type) ==
            SelectSeq(ReaddirOrder,
                LAMBDA n : /\ n \in ArgNames
                           /\ documentCache[CacheKey(type, n)] # NoDoc
                           /\ ~existsSync(storage, type, n))
        csvFiles == getAvailableCSVs(storage) \o cached("csv")
        pdfFiles == getAvailablePDFs(storage) \o cached("pdf")
    IN  IF Len(csvFiles) = 0 /\ Len(pdfFiles) = 0
        THEN [NoResult EXCEPT !.kind = "noDocuments"]
        ELSE [NoResult EXCEPT !.kind = "listing",
                              !.records = withType(csvFiles, "csv")
                                              \o withType(pdfFiles, "pdf")]

\* list_documents: no await, the listing or the "no documents" text; the
\* listing names the CSV files, then the PDF files
listOutcome(storage) ==
    LET csvFiles == getAvailableCSVs(storage)
        pdfFiles == getAvailablePDFs(storage)
    IN  IF Len(csvFiles) = 0 /\ Len(pdfFiles) = 0
        THEN [NoResult EXCEPT !.kind = "noDocuments"]
        ELSE [NoResult EXCEPT !.kind = "listing",
                              !.records = withType(csvFiles, "csv")
                                              \o withType(pdfFiles, "pdf")]

ListDocuments(c, server) ==
    /\ FreeSlot(c)
    /\ started' = started + 1
    /\ calls' = [calls EXCEPT ![c] =
           [NewCall("list_documents", server, <<>>, "none", <<>>,
                    [given |-> FALSE, value |-> 0])
               EXCEPT !.pc = "done", !.result = listOutcome(fs)]]
    /\ UNCHANGED <<fs, fsChanges, documentCache, nextInst, parseCount,
                   parseFailed, returned, fnIn, fnOut>>

\* pdf-parse settles and parsePDF runs on to its return or its throw
PdfParseSettles(c) ==
    /\ calls[c].pc = "await"
    /\ calls[c].parse.state = "extracting"
    /\ LET doc == CurrentDoc(calls[c])
           eff == parsePDFResume(doc.filename, calls[c].parse, nextInst)
       IN  /\ calls' = [calls EXCEPT ![c].parse = eff]
           /\ Settle(CacheKey(doc.type, doc.filename), eff, FALSE)
    /\ UNCHANGED <<fs, fsChanges, started, fnIn, fnOut>>

\* the variant without the try/catch: the rejection of parseDocument leaves
\* the handler as it is
documentOutcome_NoCatch(parse) ==
    IF parse.state = "resolved"
    THEN [NoResult EXCEPT !.kind = "document", !.inst = parse.doc.inst]
    ELSE [NoResult EXCEPT !.kind = "escaped"]

\* the try/catch around `await parseDocument`: the text of the document, or
\* the catch block's isError result
documentOutcome(parse) ==
    IF parse.state = "resolved"
    THEN [NoResult EXCEPT !.kind = "document", !.inst = parse.doc.inst]
    ELSE [NoResult EXCEPT !.kind = "error", !.isError = TRUE]

\* get_document_content / get_document_summary behind the await
GetDocumentReturns(c) ==
    /\ calls[c].tool \in {"get_document_content", "get_document_summary"}
    /\ calls[c].pc = "await"
    /\ calls[c].parse.state \in {"resolved", "rejected"}
    /\ calls' = [calls EXCEPT ![c].pc = "done",
                              ![c].result = documentOutcome(calls[c].parse)]
    /\ UNCHANGED <<fs, fsChanges, started, documentCache, nextInst,
                   parseCount, parseFailed, returned, fnIn, fnOut>>

\* allResults.push(...results.map(chunk => ({filename, docType, chunk})))
pushResults(allResults, doc, results) ==
    allResults \o [i \in 1..Len(results) |->
                      [filename |-> doc.filename, docType |-> doc.type,
                       chunk |-> results[i]]]

\* the variant in which a failing document aborts the search
searchOutcome_Abort(rec, allResults) ==
    IF rec.skipped > 0 \/ rec.parse.state = "rejected"
    THEN [NoResult EXCEPT !.kind = "error", !.isError = TRUE]
    ELSE IF Len(allResults) = 0
    THEN [NoResult EXCEPT !.kind = "noResults"]
    ELSE [NoResult EXCEPT
             !.kind = "results",
             !.records = slice0(allResults,
                                effectiveTopK(rec.server, rec.topK))]

\* the result of a search once the loop has ended with allResults
searchOutcome(rec, allResults) ==
    IF Len(allResults) = 0
    THEN [NoResult EXCEPT !.kind = "noResults"]
    ELSE [NoResult EXCEPT
             !.kind = "results",
             !.records = slice0(allResults,
                                effectiveTopK(rec.server, rec.topK))]

\* search_documentation behind the await: the body of the try or the catch
\* for the current document, then the next document or the result
SearchResumes(c) ==
    /\ calls[c].tool = "search_documentation"
    /\ calls[c].pc = "await"
    /\ calls[c].parse.state \in {"resolved", "rejected"}
    /\ LET rec == calls[c]
           doc == rec.docs[rec.idx]
           allResults ==
               IF rec.parse.state = "resolved"
               THEN pushResults(rec.allResults, doc,
                        searchDocument(rec.parse.doc, rec.query,
                                       effectiveTopK(rec.server, rec.topK)))
               ELSE rec.allResults
           skipped == IF rec.parse.state = "rejected"
                      THEN rec.skipped + 1 ELSE rec.skipped
       IN  IF rec.idx < Len(rec.docs)
           THEN BeginParse(c, [rec EXCEPT !.allResults = allResults,
                                          !.skipped = skipped,
                                          !.idx = rec.idx + 1],
                           rec.docs[rec.idx + 1].filename,
                           rec.docs[rec.idx + 1].type)
           ELSE /\ calls' = [calls EXCEPT
                        ![c] = [rec EXCEPT
                                   !.allResults = allResults,
                                   !.skipped = skipped,
                                   !.pc = "done",
                                   !.result = searchOutcome(rec, allResults)]]
                /\ UNCHANGED <<documentCache, nextInst, parseCount,
                               parseFailed, returned>>
    /\ UNCHANGED <<fs, fsChanges, started, fnIn, fnOut>>

----------------------------------------------------------------------------
(* The engine before any tool call, over empty storage directories *)

SysIdle ==
    /\ fs = [t \in Types |->
               [exists |-> TRUE, files |-> [n \in DiskNames |-> AbsentFile]]]
    /\ documentCache = [k \in Keys |-> NoDoc]
    /\ calls = [c \in Slots |-> IdleCall]
    /\ started = 0
    /\ nextInst = 1
    /\ fsChanges = 0
    /\ parseCount = [k \in Keys |-> 0]
    /\ parseFailed = [k \in Keys |-> 0]
    /\ returned = [k \in Keys |-> {}]

----------------------------------------------------------------------------
(* Storage contents and the environment that changes them *)

CsvBlank == File(<<"\n">>, 0, FALSE)
CsvOneRow == File(<<"h", "\n", "a", "b", "c">>, 0, FALSE)
PdfCorrupt == File(<<"%">>, 0, FALSE)
PdfTwoHits == File(<<"a", "b", "c", " ", "a", "b", "c">>, 1, TRUE)

\* what a file of the directory of a type can hold
FilesOf(type) ==
    IF type = "csv" THEN {CsvBlank, CsvOneRow} ELSE {PdfCorrupt, PdfTwoHits}

MaxFsChanges == 1

\* a file is written, replaced or deleted
FsWrite(type, name, file) ==
    /\ fsChanges < MaxFsChanges
    /\ fs[type].files[name] # file
    /\ fs' = [fs EXCEPT ![type].files[name] = file,
                        ![type].exists = @ \/ file.present]
    /\ fsChanges' = fsChanges + 1
    /\ UNCHANGED <<documentCache, calls, started, nextInst, parseCount,
                   parseFailed, returned, fnIn, fnOut>>

\* a storage directory is removed with all it holds
FsRemoveDir(type) ==
    /\ fsChanges < MaxFsChanges
    /\ fs[type].exists
    /\ fs' = [fs EXCEPT ![type] =
                 [exists |-> FALSE, files |-> [n \in DiskNames |-> AbsentFile]]]
    /\ fsChanges' = fsChanges + 1
    /\ UNCHANGED <<documentCache, calls, started, nextInst, parseCount,
                   parseFailed, returned, fnIn, fnOut>>

StorageChanges ==
    \/ \E type \in Types, name \in DiskNames :
          \E file \in FilesOf(type) \cup {AbsentFile} :
             FsWrite(type, name, file)
    \/ \E type \in Types : FsRemoveDir(type)

----------------------------------------------------------------------------
(* Spec: tool calls that overlap in time, over storage that changes *)

MaxCalls == 3

Servers == {"stdio", "http"}
Omitted == [given |-> FALSE, value |-> 0]
Given(n) == [given |-> TRUE, value |-> n]

QueryAbc == <<"a", "b", "c">>

Dir(files) == [exists |-> TRUE, files |-> files]
NoDir == [exists |-> FALSE, files |-> [n \in DiskNames |-> AbsentFile]]
Only(name, file) == [n \in DiskNames |-> IF n = name THEN file ELSE AbsentFile]

\* a CSV directory that holds a file of the other extension only, and an
\* empty PDF directory
MisplacedStorage ==
    [csv |-> Dir(Only(NamePdfA, CsvOneRow)),
     pdf |-> Dir([n \in DiskNames |-> AbsentFile])]

\* a document of each type, each of them readable or not, or no document
\* of either type, or no storage directories at all
InitialStorages ==
    {[csv |-> Dir(Only(NameCsvA, csvFile)), pdf |-> Dir(Only(NamePdfA, pdfFile))] :
        csvFile \in FilesOf("csv"), pdfFile \in FilesOf("pdf")}
    \cup {MisplacedStorage, [csv |-> NoDir, pdf |-> NoDir]}

\* a readable document of each type
PopulatedStorage ==
    [csv |-> Dir(Only(NameCsvA, CsvOneRow)), pdf |-> Dir(Only(NamePdfA, PdfTwoHits))]

Starting(storages) ==
    /\ fs \in storages
    /\ documentCache = [k \in Keys |-> NoDoc]
    /\ calls = [c \in Slots |-> IdleCall]
    /\ started = 0
    /\ nextInst = 1
    /\ fsChanges = 0
    /\ parseCount = [k \in Keys |-> 0]
    /\ parseFailed = [k \in Keys |-> 0]
    /\ returned = [k \in Keys |-> {}]
    /\ fnIn = <<>>
    /\ fnOut = NotRun

Init == Starting({PopulatedStorage})

\* the tools that return one document
Tools == {"get_document_content", "get_document_summary"}

\* a client calls get_document_content while other calls may be running
CallGetDocument ==
    /\ started < MaxCalls
    /\ \E c \in Slots, filename \in ArgNames, type \in Types :
          GetDocument(c, "get_document_content", "stdio", filename, type)

\* a client searches the whole catalog while other calls may be running
CallSearchAll ==
    /\ started < MaxCalls
    /\ \E c \in Slots :
          SearchDocumentation(c, "stdio", QueryAbc, <<>>, "none", Omitted)

\* a client lists the documents while other calls may be running
CallListDocuments ==
    /\ started < MaxCalls
    /\ \E c \in Slots : ListDocuments(c, "stdio")

Next ==
    \/ CallGetDocument
    \/ CallSearchAll
    \/ CallListDocuments
    \/ \E c \in Slots : PdfParseSettles(c)
    \/ \E c \in Slots : GetDocumentReturns(c)
    \/ \E c \in Slots : SearchResumes(c)
    \/ StorageChanges

Spec == Init /\ [][Next]_vars

----------------------------------------------------------------------------
(* The document cache under overlapping calls (Spec) *)

\* the calls that have called parseDocument
Parsing == {c \in Slots : calls[c].parse.state # "none"}

KeyOf(c) == CacheKey(CurrentDoc(calls[c]).type, CurrentDoc(calls[c]).filename)

\* C1: of the parses of one key that overlap in time at most one executes:
\* the parses begun for a key, less those that ended in an error (each of
\* which leaves the key uncached, to be parsed again), never exceed 1
C1_AtMostOneParse ==
    \A k \in Keys : parseCount[k] - parseFailed[k] <= 1

\* C2: a call that starts after a parseDocument call for the same key has
\* completed gets the very document that call got, and reads no storage
C2_LaterCallsGetSameInstance ==
    \A c \in Parsing :
        (calls[c].prior # {} /\ calls[c].parse.state = "resolved")
            => /\ calls[c].prior = {calls[c].parse.doc.inst}
               /\ ~calls[c].parse.accessedFs
               /\ ~calls[c].parse.read

\* call c's parseDocument settles in this step
SettlesNow(c, state) ==
    /\ calls'[c] # calls[c]
    /\ calls'[c].pc = "await"
    /\ calls'[c].parse.state = state
    /\ \/ calls[c].pc # "await"
       \/ calls[c].idx # calls'[c].idx
       \/ calls[c].parse.state # state

FailsNow(c) == SettlesNow(c, "rejected")

\* call c's parseDocument stores the document it built in this step
StoresNow(c) ==
    /\ SettlesNow(c, "resolved")
    /\ calls'[c].parse.read
    /\ LET doc == CurrentDoc(calls'[c])
       IN  documentCache' =
               [documentCache EXCEPT ![CacheKey(doc.type, doc.filename)] =
                   calls'[c].parse.doc]

\* C3: a step in which a parseDocument call fails leaves the cache as it
\* is, and the cache changes only in a step in which a parse that read its
\* file completes successfully, by the entry of that parse
C3_FailedParseLeavesCache ==
    [][/\ \A c \in Slots : FailsNow(c) => documentCache' = documentCache
       /\ documentCache' # documentCache => \E c \in Slots : StoresNow(c)]_vars

\* a tabular file failed to parse twice: the second call parsed it again
C3_Witness ==
    \E c \in Parsing :
        /\ calls[c].parse.error = "empty"
        /\ parseFailed[KeyOf(c)] >= 2
        /\ documentCache[KeyOf(c)] = NoDoc

\* C4: for a filename that validation rejects, a parse path consults no
\* cache, touches no file and stores nothing, whichever the type
C4_ValidationFirst ==
    /\ \A c \in Parsing :
          validateFilename(CurrentDoc(calls[c]).filename) # "ok"
              => /\ calls[c].parse.state = "rejected"
                 /\ calls[c].parse.error = "validation"
                 /\ ~calls[c].parse.lookedUp
                 /\ ~calls[c].parse.accessedFs
                 /\ ~calls[c].parse.wroteCache
    /\ \A k \in Keys :
          validateFilename(k[2]) # "ok"
              => documentCache[k] = NoDoc /\ parseCount[k] = 0

C4_Witness ==
    \E c \in Parsing :
        /\ calls[c].type = "pdf"
        /\ calls[c].filename = NameDots
        /\ calls[c].parse.error = "validation"

----------------------------------------------------------------------------
(* SpecSearch: one tool call after the other, with every argument a search *)
(* takes, over storage that stays as it is                                 *)

Queries == {QueryAbc, <<>>, <<" ">>}
TopKs == {Omitted, Given(0), Given(1), Given(2)}
\* how many calls follow one another
MaxSequential == 2

NoCallRunning == \A c \in Slots : IsFree(c)

CallSearch ==
    /\ started < MaxSequential
    /\ NoCallRunning
    /\ \E c \in Slots, server \in Servers, query \in Queries,
          filename \in ArgNames \cup {<<>>}, type \in Types \cup {"none"},
          topK \in TopKs :
          SearchDocumentation(c, server, query, filename, type, topK)

CallGetDocumentAlone ==
    /\ started < MaxSequential
    /\ NoCallRunning
    /\ \E c \in Slots, tool \in Tools, server \in Servers,
          filename \in ArgNames, type \in Types :
          GetDocument(c, tool, server, filename, type)

CallListDocumentsAlone ==
    /\ started < MaxSequential
    /\ NoCallRunning
    /\ \E c \in Slots, server \in Servers : ListDocuments(c, server)

NextSearch ==
    \/ CallSearch
    \/ CallGetDocumentAlone
    \/ CallListDocumentsAlone
    \/ \E c \in Slots : PdfParseSettles(c)
    \/ \E c \in Slots : GetDocumentReturns(c)
    \/ \E c \in Slots : SearchResumes(c)

InitSearch == Starting(InitialStorages)

SpecSearch == InitSearch /\ [][NextSearch]_vars

\* the searches that have returned
SearchesDone ==
    {c \in Slots : calls[c].tool = "search_documentation" /\ calls[c].pc = "done"}

\* the chunks of the candidate documents of call c that parsed
CandidateChunks(c) ==
    UNION {{[filename |-> calls[c].docs[i].filename,
             docType |-> calls[c].docs[i].type,
             chunk |-> documentCache[CacheKey(calls[c].docs[i].type,
                                              calls[c].docs[i].filename)]
                           .chunks[j]] :
               j \in 1..Len(documentCache[CacheKey(calls[c].docs[i].type,
                                calls[c].docs[i].filename)].chunks)} :
           i \in 1..Len(calls[c].docs)}

Returned(c) == {calls[c].result.records[i] :
                   i \in 1..Len(calls[c].result.records)}

\* C6: the records a search returns are in non-increasing order of score,
\* and no chunk of a candidate document that scores above 0 and is left
\* out scores higher than a chunk that is returned
C6_RankedAcrossDocuments ==
    \A c \in SearchesDone :
        LET recs == calls[c].result.records
            score(r) == chunkScore(r.chunk.content, calls[c].query)
        IN  /\ \A i, j \in 1..Len(recs) : i < j => score(recs[i]) >= score(recs[j])
            /\ \A out \in CandidateChunks(c) \ Returned(c) :
                  \A r \in Returned(c) :
                      score(out) > 0 => score(out) <= score(r)

\* C7: a search with an empty or whitespace-only query returns no record
\* and no error
C7_BlankQueryReturnsNothing ==
    \A c \in SearchesDone :
        calls[c].query \in {<<>>, <<" ">>}
            => calls[c].result.records = <<>> /\ ~calls[c].result.isError

\* C9: a search returns at most topK records, at most 5 without a topK
C9_AtMostTopK ==
    \A c \in SearchesDone :
        Len(calls[c].result.records)
            <= (IF calls[c].topK.given THEN calls[c].topK.value ELSE DefaultTopK)

\* what the loop over the candidates of call c collects when every
\* candidate that parsed contributes its matches and the others nothing
RECURSIVE MatchesOfParsed(_, _)
MatchesOfParsed(c, n) ==
    IF n = 0 THEN <<>>
    ELSE LET doc == calls[c].docs[n]
             parsed == documentCache[CacheKey(doc.type, doc.filename)]
         IN  IF parsed = NoDoc THEN MatchesOfParsed(c, n - 1)
             ELSE pushResults(MatchesOfParsed(c, n - 1), doc,
                      searchDocument(parsed, calls[c].query,
                          effectiveTopK(calls[c].server, calls[c].topK)))

\* C10: a search over several candidates of which some failed to parse
\* is no error and returns the matches of the candidates that parsed
C10_FailedDocumentSkipped ==
    \A c \in SearchesDone :
        (Len(calls[c].docs) >= 2 /\ calls[c].skipped >= 1)
            => /\ ~calls[c].result.isError
               /\ calls[c].result.kind \in {"results", "noResults"}
               /\ calls[c].result.records =
                      slice0(MatchesOfParsed(c, Len(calls[c].docs)),
                             effectiveTopK(calls[c].server, calls[c].topK))

C10_Witness ==
    \E c \in SearchesDone :
        /\ Len(calls[c].docs) = 2
        /\ calls[c].skipped = 1
        /\ calls[c].result.kind = "results"
        /\ Len(calls[c].result.records) = 1

----------------------------------------------------------------------------
(* Specification of validateFilename over every short filename *)

MaxNameLen == 3

NameAlphabet == {"a", "C", "1", ".", "/", "\\", ":"}

RECURSIVE StringsUpTo(_, _)
StringsUpTo(alphabet, n) ==
    IF n = 0 THEN {<<>>}
    ELSE LET shorter == StringsUpTo(alphabet, n - 1)
         IN  shorter \cup {Append(s, ch) : s \in shorter, ch \in alphabet}

InitValidate ==
    /\ SysIdle
    /\ fnIn \in StringsUpTo(NameAlphabet, MaxNameLen)
    /\ fnOut = NotRun

Validate ==
    /\ ~fnOut.done
    /\ fnOut' = Result(validateFilename(fnIn))
    /\ UNCHANGED <<fnIn, sysVars>>

NextValidate == Validate

SpecValidate == InitValidate /\ [][NextValidate]_vars

\* the filenames the contract of validateFilename lets through
C5_Accepted(filename) ==
    /\ Len(filename) > 0
    /\ \A i \in 1..Len(filename) : filename[i] \notin {"/", "\\"}
    /\ \A i \in 1..(Len(filename) - 1) :
          ~(filename[i] = "." /\ filename[i + 1] = ".")
    /\ filename[1] # "/"
    /\ ~(Len(filename) >= 2 /\ filename[1] \in Letters /\ filename[2] = ":")

\* C5: validateFilename accepts exactly the non-empty filenames that hold no
\* "..", no "/", no "\" and neither start with "/" nor with a letter and ":"
C5_ValidateExact ==
    fnOut.done => (fnOut.value = "ok" <=> C5_Accepted(fnIn))

C5_Witness ==
    fnOut.done /\ fnOut.value = "absolute" /\ fnIn = <<"C", ":", "a">>

----------------------------------------------------------------------------
(* Specification of the scoring of one chunk, over short texts and queries *)

MaxTextLen == 3

ScoreAlphabet == {"a", "A", ".", " "}

\* the terms of three characters, and the texts made of two of them
ThreeCharTerms == {<<x, y, z>> : x \in {"a", "."}, y \in {"a", "."}, z \in {"a", "."}}
TwoTerms == {t1 \o <<" ">> \o t2 : t1 \in ThreeCharTerms, t2 \in ThreeCharTerms}

ScoreTexts == StringsUpTo(ScoreAlphabet, MaxTextLen) \cup TwoTerms

OneChunkDoc(content) ==
    [NoDoc EXCEPT !.inst = 1,
                  !.chunks = <<[content |-> content, pageNumber |-> 1,
                                chunkIndex |-> 0]>>]

InitScore ==
    /\ SysIdle
    /\ fnIn \in [content : ScoreTexts, query : ScoreTexts]
    /\ fnOut = NotRun

Score ==
    /\ ~fnOut.done
    /\ fnOut' = Result([score |-> chunkScore(fnIn.content, fnIn.query),
                        returned |-> searchDocument(OneChunkDoc(fnIn.content),
                                                    fnIn.query, DefaultTopK)])
    /\ UNCHANGED <<fnIn, sysVars>>

NextScore == Score

SpecScore == InitScore /\ [][NextScore]_vars

\* the occurrences of term in content as a plain text search counts them:
\* left to right, each search resuming behind the previous occurrence
RECURSIVE C8_Occurrences(_, _, _)
C8_Occurrences(term, content, i) ==
    IF i + Len(term) - 1 > Len(content) THEN 0
    ELSE IF SubSeq(content, i, i + Len(term) - 1) = term
         THEN 1 + C8_Occurrences(term, content, i + Len(term))
    ELSE C8_Occurrences(term, content, i + 1)

RECURSIVE C8_TermSum(_, _)
C8_TermSum(terms, lowerContent) ==
    IF terms = <<>> THEN 0
    ELSE C8_Occurrences(Head(terms), lowerContent, 1)
             + C8_TermSum(Tail(terms), lowerContent)

C8_StatedScore(content, query) ==
    C8_TermSum(queryTerms(query), toLowerCase(content))
        + (IF includes(toLowerCase(content), toLowerCase(query)) THEN 10 ELSE 0)

\* C8: the score of a chunk is the number of occurrences of the query's
\* terms of more than 2 characters in its text, plus 10 if the text holds
\* the whole query; a chunk that scores 0 is not returned
C8_ScoreAsStated ==
    fnOut.done
        => /\ fnOut.value.score = C8_StatedScore(fnIn.content, fnIn.query)
           /\ C8_StatedScore(fnIn.content, fnIn.query) = 0
                 => fnOut.value.returned = <<>>

----------------------------------------------------------------------------
(* A search of one explicitly named document (SpecSearch) *)

\* the searches that named their document by filename and type
NamedSearchesDone ==
    {c \in SearchesDone : calls[c].filename # <<>> /\ calls[c].type # "none"}

\* C11: a search of one named document whose parse fails returns a failure
\* (isError), not an ordinary "no results" outcome
C11_NamedDocumentFailureSurfaces ==
    \A c \in NamedSearchesDone :
        calls[c].skipped >= 1 => calls[c].result.isError

----------------------------------------------------------------------------
(* SpecLive: calls of the four tools that overlap in time, over storage    *)
(* that stays as it is, where a promise that can settle does settle and a  *)
(* handler that can resume is resumed by the event loop                    *)

\* how many calls are made
MaxToolCalls == 2

CallTool ==
    /\ started < MaxToolCalls
    /\ \E c \in Slots, server \in Servers :
          \/ \E tool \in Tools, filename \in ArgNames, type \in Types :
                GetDocument(c, tool, server, filename, type)
          \/ \E filename \in {NameDots, <<>>}, type \in Types \cup {"none"} :
                SearchDocumentation(c, server, QueryAbc, filename, type, Omitted)
          \/ ListDocuments(c, server)

NextLive ==
    \/ CallTool
    \/ \E c \in Slots : PdfParseSettles(c)
    \/ \E c \in Slots : GetDocumentReturns(c)
    \/ \E c \in Slots : SearchResumes(c)

\* call c is suspended and can go on: pdf-parse has a buffer to settle on,
\* or parseDocument has settled and the handler can resume
CanStep(c) ==
    /\ calls[c].pc = "await"
    /\ calls[c].parse.state \in {"extracting", "resolved", "rejected"}

Step(c) ==
    PdfParseSettles(c) \/ GetDocumentReturns(c) \/ SearchResumes(c)

\* weak fairness of Step(c), which is enabled exactly when CanStep(c)
SpecLive ==
    /\ InitSearch
    /\ [][NextLive]_vars
    /\ \A c \in Slots : []<>(~CanStep(c)) \/ []<><<Step(c)>>_vars

\* the results a tool call hands to the protocol layer: a text without
\* isError, or the text of an error with isError
SuccessKinds == {"results", "noResults", "noDocuments", "document", "listing"}

OneOutcome(result) ==
    \/ result.kind \in SuccessKinds /\ ~result.isError
    \/ result.kind = "error" /\ result.isError

\* C12: every call of a tool ends, and ends in one outcome: a text result,
\* or an error rendered as text and flagged isError; no exception escapes
C12_EveryCallEndsInOneOutcome ==
    /\ [](\A c \in Slots : calls[c].pc = "done" => OneOutcome(calls[c].result))
    /\ \A c \in Slots : (calls[c].pc = "await") ~> (calls[c].pc = "done")

\* a call of get_document_summary has ended in an error and a call of
\* list_documents in a listing
C12_Witness ==
    \E c, d \in Slots :
        /\ calls[c].pc = "done" /\ calls[c].tool = "get_document_summary"
        /\ calls[c].result.isError
        /\ calls[d].pc = "done" /\ calls[d].tool = "list_documents"
        /\ calls[d].result.kind = "listing"

----------------------------------------------------------------------------
(* SpecChunk: chunkText over every short text, with small chunk sizes and  *)
(* overlaps (an overlap of 5 characters is one word, as 200 is 40 words)   *)

MaxChunkTextLen == 7

ChunkAlphabet == {"a", ".", " "}
ChunkSizes == {1, 3, 5}
Overlaps == {0, 5, DefaultOverlap}

InitChunk ==
    /\ SysIdle
    /\ fnIn \in [text : StringsUpTo(ChunkAlphabet, MaxChunkTextLen),
                 chunkSize : ChunkSizes, overlap : Overlaps]
    /\ fnOut = NotRun

Chunk ==
    /\ ~fnOut.done
    /\ fnOut' = Result(chunkText(fnIn.text, fnIn.chunkSize, fnIn.overlap))
    /\ UNCHANGED <<fnIn, sysVars>>

NextChunk == Chunk

SpecChunk == InitChunk /\ [][NextChunk]_vars

\* chunk is made of whole consecutive sentences: sentences i to j for some
\* i and j, a space between them, without the whitespace around them
C13_WholeSentences(chunk, sentences) ==
    \E i \in 1..Len(sentences) : \E j \in i..Len(sentences) :
        chunk = trim(join(SubSeq(sentences, i, j), <<" ">>))

\* C13: chunkText never splits a sentence: every sentence of the text is
\* whole inside some chunk, and when the sentences are shorter than the
\* chunk size every chunk starts and ends where a sentence does
C13_NeverSplitsSentence ==
    fnOut.done
        => LET sentences == splitSentences(fnIn.text)
               chunks == fnOut.value
           IN  /\ \A s \in 1..Len(sentences) :
                     trim(sentences[s]) # <<>>
                         => \E k \in 1..Len(chunks) :
                               includes(chunks[k], trim(sentences[s]))
               /\ (\A s \in 1..Len(sentences) :
                       Len(sentences[s]) < fnIn.chunkSize)
                     => \A k \in 1..Len(chunks) :
                           C13_WholeSentences(chunks[k], sentences)

\* the words of a text: what is left of it when whitespace is normalized
C14_Words(text) ==
    SelectSeq(SplitWhitespaceFrom(text, 1, 1), LAMBDA w : w # <<>>)

\* C14: with overlap 0 the chunks, put together in order, are the text again
\* up to whitespace: nothing is duplicated and nothing is lost
C14_ChunksRebuildText ==
    (fnOut.done /\ fnIn.overlap = 0)
        => C14_Words(join(fnOut.value, <<" ">>)) = C14_Words(fnIn.text)

----------------------------------------------------------------------------
(* SpecCsv: parseCSV of one file, over every short file content and the    *)
(* file of the end-to-end example, then a search of the parsed document    *)

MaxCsvLen == 5

CsvAlphabet == {"a", ",", "\n", " "}

\* name,size / widget,42
WidgetCsv ==
    <<"n", "a", "m", "e", ",", "s", "i", "z", "e", "\n", "w", "i", "d",
    "g", "e", "t", ",", "4", "2">>

WidgetQuery ==
    <<"w", "i", "d", "g", "e", "t">>

WidgetRow ==
    <<"n", "a", "m", "e", ":", " ", "w", "i", "d", "g", "e", "t", " ",
    "|", " ", "s", "i", "z", "e", ":", " ", "4", "2">>

CsvContents == StringsUpTo(CsvAlphabet, MaxCsvLen) \cup {WidgetCsv}

StorageWith(content) ==
    [csv |-> Dir(Only(NameCsvA, File(content, 0, FALSE))), pdf |-> NoDir]

\* the file content is the input
InitCsv == Starting({StorageWith(content) : content \in CsvContents})

CsvContent == fs["csv"].files[NameCsvA].raw

\* parseDocument(a.csv, "csv") on an empty cache, and searchDocument of the
\* document it returns
ParseCsv ==
    /\ ~fnOut.done
    /\ LET eff == parseDocument(NameCsvA, "csv", documentCache, fs, nextInst)
       IN  /\ fnOut' = Result(
                  [parse |-> eff,
                   found |-> IF eff.state = "resolved"
                             THEN searchDocument(eff.doc, WidgetQuery, DefaultTopK)
                             ELSE <<>>])
           /\ Settle(CacheKey("csv", NameCsvA), eff, TRUE)
    /\ UNCHANGED <<fs, calls, started, fsChanges, fnIn>>

NextCsv == ParseCsv

SpecCsv == InitCsv /\ [][NextCsv]_vars

\* the pieces of s between the occurrences of the character sep
RECURSIVE C15_SplitAt(_, _)
C15_SplitAt(s, sep) ==
    IF \A i \in 1..Len(s) : s[i] # sep THEN <<s>>
    ELSE LET first == CHOOSE i \in 1..Len(s) :
                          s[i] = sep /\ \A j \in 1..(i - 1) : s[j] # sep
         IN  <<SubSeq(s, 1, first - 1)>>
                 \o C15_SplitAt(SubSeq(s, first + 1, Len(s)), sep)

\* the lines of a file that hold more than whitespace
C15_Lines(content) ==
    SelectSeq(C15_SplitAt(content, "\n"),
              LAMBDA line : \E i \in 1..Len(line) : ~IsSpace(line[i]))

\* the comma-separated cells of a line, without the whitespace around them
C15_Cells(line) ==
    LET cells == C15_SplitAt(line, ",")
    IN  [i \in 1..Len(cells) |-> trim(cells[i])]

\* header1: value1 | header2: value2 | ..., a missing value left empty
C15_RowText(headers, cells) ==
    join([i \in 1..Len(headers) |->
             headers[i] \o <<":", " ">>
                 \o (IF i <= Len(cells) THEN cells[i] ELSE <<>>)],
         <<" ", "|", " ">>)

C15_StatedText(content) ==
    LET lines == C15_Lines(content)
        headers == C15_Cells(lines[1])
    IN  join([r \in 1..(Len(lines) - 1) |->
                 C15_RowText(headers, C15_Cells(lines[r + 1]))],
             <<"\n", "\n">>)

\* C15: the text of a parsed tabular file is its data rows, each written
\* as header1: value1 | header2: value2 | ... with the first non-blank line
\* as headers, a blank line between rows; for the file name,size /
\* widget,42 the text, and the result of a search for "widget", hold
\* name: widget | size: 42
C15_RowsReserialized ==
    (fnOut.done /\ fnOut.value.parse.state = "resolved")
        => /\ fnOut.value.parse.doc.fullText = C15_StatedText(CsvContent)
           /\ CsvContent = WidgetCsv
                 => /\ includes(fnOut.value.parse.doc.fullText, WidgetRow)
                    /\ fnOut.value.found # <<>>
                    /\ \A i \in 1..Len(fnOut.value.found) :
                          includes(fnOut.value.found[i].content, WidgetRow)

\* the file of the example has been parsed and searched
C15_Witness ==
    /\ fnOut.done
    /\ CsvContent = WidgetCsv
    /\ fnOut.value.parse.doc.fullText = WidgetRow
    /\ Len(fnOut.value.found) = 1

\* C16: a tabular file without a non-blank line fails to parse as empty,
\* with no document and no cache entry; a file with a non-blank line, be it
\* a header row alone, does not fail so
C16_EmptyFileFails ==
    fnOut.done
        => IF \A i \in 1..Len(CsvContent) : IsSpace(CsvContent[i])
           THEN /\ fnOut.value.parse.state = "rejected"
                /\ fnOut.value.parse.error = "empty"
                /\ fnOut.value.parse.doc = NoDoc
                /\ ~fnOut.value.parse.wroteCache
                /\ documentCache[CacheKey("csv", NameCsvA)] = NoDoc
           ELSE /\ fnOut.value.parse.state = "resolved"
                /\ fnOut.value.parse.error = "none"

\* a file of blank lines has failed to parse
C16_Witness ==
    /\ fnOut.done
    /\ CsvContent = <<" ", "\n", "\n", " ">>
    /\ fnOut.value.parse.error = "empty"

----------------------------------------------------------------------------
(* SpecList: the listing of the two storage directories, over every set of *)
(* entries a directory can hold and over missing directories               *)

ListNames == {ReaddirOrder[i] : i \in 1..Len(ReaddirOrder)}

\* a directory that holds the entries of names, or no directory
Directories ==
    {[exists |-> TRUE,
      files |-> [n \in ListNames |->
                    IF n \in names THEN File(<<"a">>, 1, TRUE) ELSE AbsentFile]] :
        names \in SUBSET ListNames}
    \cup {[exists |-> FALSE, files |-> [n \in ListNames |-> AbsentFile]]}

InitList == Starting([csv : Directories, pdf : Directories])

List ==
    /\ ~fnOut.done
    /\ fnOut' = Result([csv |-> getAvailableCSVs(fs),
                        pdf |-> getAvailablePDFs(fs),
                        all |-> getAllDocuments(fs)])
    /\ UNCHANGED <<fnIn, sysVars>>

NextList == List

SpecList == InitList /\ [][NextList]_vars

\* the entries of the directory of a type
C17_Entries(type) == {n \in ListNames : fs[type].files[n].present}

C17_Extension(type) ==
    IF type = "csv" THEN <<".", "c", "s", "v">> ELSE <<".", "p", "d", "f">>

C17_Listed(type) == {fnOut.value[type][i] : i \in 1..Len(fnOut.value[type])}

\* the claim as it is worded: the names that end with the extension
C17_ListsNamesEndingWithExtension ==
    fnOut.done
        => \A type \in Types :
              C17_Listed(type) =
                  {n \in C17_Entries(type) : endsWith(n, C17_Extension(type))}

\* C17: the listing of a type is, each once, the entries of its directory
\* whose names end with the extension of the type, whatever the case of
\* their letters, and it is empty when the directory does not exist
C17_ListsByExtension ==
    fnOut.done
        => \A type \in Types :
              /\ C17_Listed(type) =
                     {n \in C17_Entries(type) :
                         endsWith(toLowerCase(n), C17_Extension(type))}
              /\ Len(fnOut.value[type]) = Cardinality(C17_Listed(type))
              /\ ~fs[type].exists => fnOut.value[type] = <<>>

\* a directory that holds a.csv, a.CSV and a.pdf has been listed, and the
\* other directory does not exist
C17_Witness ==
    /\ fnOut.done
    /\ C17_Entries("csv") = {NameCsvA, NameUpperCsv, NamePdfA}
    /\ fnOut.value["csv"] = <<NameUpperCsv, NameCsvA>>
    /\ ~fs["pdf"].exists
    /\ fnOut.value["pdf"] = <<>>

----------------------------------------------------------------------------
(* An empty catalog (SpecSearch, whose storage stays as it is) *)

\* neither directory holds a file with the extension of its type
NoMatchingFile ==
    \A type \in Types : \A n \in DOMAIN fs[type].files :
        fs[type].files[n].present
            => ~endsWith(toLowerCase(n), C17_Extension(type))

----------------------------------------------------------------------------
(* SpecInsert: the score of a chunk before and after one more occurrence   *)
(* of a term of the query is put into its text                             *)

\* the text with the term put in behind its first `at` characters
C19_InsertAt(content, at, term) ==
    SubSeq(content, 1, at) \o term \o SubSeq(content, at + 1, Len(content))

\* the input: a chunk text, a query, which of the terms of the query is put
\* in, and where
InitInsert ==
    /\ SysIdle
    /\ fnIn \in {in \in [content : StringsUpTo(ScoreAlphabet, MaxTextLen),
                         query : ScoreTexts,
                         which : 1..2,
                         at : 0..MaxTextLen] :
                    /\ in.which <= Len(C14_Words(in.query))
                    /\ in.at <= Len(in.content)}
    /\ fnOut = NotRun

Insert ==
    /\ ~fnOut.done
    /\ LET term == C14_Words(fnIn.query)[fnIn.which]
           longer == C19_InsertAt(fnIn.content, fnIn.at, term)
       IN  fnOut' = Result([before |-> chunkScore(fnIn.content, fnIn.query),
                            after |-> chunkScore(longer, fnIn.query),
                            longer |-> longer])
    /\ UNCHANGED <<fnIn, sysVars>>

NextInsert == Insert

SpecInsert == InitInsert /\ [][NextInsert]_vars

\* C19: one more verbatim occurrence of a term of the query, put anywhere
\* into the text of a chunk, never lowers the score of the chunk
C19_InsertionNeverLowersScore ==
    fnOut.done => fnOut.value.after >= fnOut.value.before

----------------------------------------------------------------------------
(* Parses of different keys (Spec) *)

\* call c calls parseDocument in this step
BeginsParse(c) ==
    /\ calls'[c] # calls[c]
    /\ calls'[c].pc = "await"
    /\ calls[c].parse.state # "extracting"

\* the cache and the storage with all but one key left out
OwnCache(key) ==
    [k \in Keys |-> IF k = key THEN documentCache[k] ELSE NoDoc]

OwnStorage(type, filename) ==
    [t \in Types |->
        IF t = type
        THEN [exists |-> fs[t].exists,
              files |-> [n \in DOMAIN fs[t].files |->
                            IF n = filename THEN fs[t].files[n] ELSE AbsentFile]]
        ELSE [exists |-> FALSE,
              files |-> [n \in DOMAIN fs[t].files |-> AbsentFile]]]

\* C20: parses of different keys are independent: what a parseDocument call
\* does is decided by the cache entry and the file of its own key alone, it
\* is suspended only for the extraction of its own file, and a step of a
\* call changes no other call and no cache entry but that of its own key
C20_DifferentKeysIndependent ==
    [][/\ \A c \in Slots :
             BeginsParse(c)
                 => LET doc == CurrentDoc(calls'[c])
                    IN  calls'[c].parse =
                            parseDocument(doc.filename, doc.type,
                                OwnCache(CacheKey(doc.type, doc.filename)),
                                OwnStorage(doc.type, doc.filename), nextInst)
       /\ \A c \in Slots :
             (calls'[c].pc = "await" /\ calls'[c].parse.state = "extracting")
                 => /\ CurrentDoc(calls'[c]).type = "pdf"
                    /\ calls'[c].parse.read
       /\ \A c, d \in Slots :
             (c # d /\ calls'[d] # calls[d]) => calls'[c] = calls[c]
       /\ \A k \in Keys :
             documentCache'[k] # documentCache[k]
                 => \E c \in Slots :
                       /\ calls'[c] # calls[c]
                       /\ k = CacheKey(CurrentDoc(calls'[c]).type,
                                       CurrentDoc(calls'[c]).filename)]_vars

\* two calls that overlap, for different keys: the parse of the one has
\* failed and the parse of the other, begun before, has read its file and
\* completed
C20_Witness ==
    \E c, d \in Slots :
        /\ calls[c].pc = "await" /\ calls[d].pc = "await"
        /\ KeyOf(c) # KeyOf(d)
        /\ calls[c].parse.state = "resolved" /\ calls[c].parse.read
        /\ CurrentDoc(calls[c]).type = "pdf"
        /\ calls[d].parse.state = "rejected"

----------------------------------------------------------------------------
(* SpecRounds: the rounds of the loop of chunkText, one record for each    *)
(* sentence: the buffer before the round, the sentence and the buffer after *)

RECURSIVE chunkRounds(_, _, _, _)
chunkRounds(st, sentences, chunkSize, overlap) ==
    IF sentences = <<>> THEN <<>>
    ELSE LET after == chunkStep(st, Head(sentences), chunkSize, overlap)
         IN  <<[before |-> st, sentence |-> Head(sentences), after |-> after]>>
                 \o chunkRounds(after, Tail(sentences), chunkSize, overlap)

RoundOverlaps == {0, 4, 5, 10}

InitRounds ==
    /\ SysIdle
    /\ fnIn \in [text : StringsUpTo(ChunkAlphabet, MaxChunkTextLen),
                 chunkSize : ChunkSizes, overlap : RoundOverlaps]
    /\ fnOut = NotRun

Rounds ==
    /\ ~fnOut.done
    /\ fnOut' = Result(chunkRounds([chunks |-> <<>>, currentChunk |-> <<>>],
                                   splitSentences(fnIn.text),
                                   fnIn.chunkSize, fnIn.overlap))
    /\ UNCHANGED <<fnIn, sysVars>>

NextRounds == Rounds

SpecRounds == InitRounds /\ [][NextRounds]_vars

\* the round closes a chunk
C21_Closes(round) ==
    /\ round.before.currentChunk # <<>>
    /\ Len(round.before.currentChunk) + Len(round.sentence) > fnIn.chunkSize

\* the last n of the words, all of them when there are fewer
C21_Trailing(words, n) ==
    SubSeq(words, (IF n > Len(words) THEN 0 ELSE Len(words) - n) + 1,
           Len(words))

\* C21: in a round that closes a chunk the next buffer is the trailing
\* floor(overlap/5) space-separated words of the closed buffer followed by
\* the new sentence, and the new sentence alone when overlap < 5
C21_NextChunkSeededWithOverlap ==
    fnOut.done
        => \A i \in DOMAIN fnOut.value :
              LET round == fnOut.value[i]
                  carried == C21_Trailing(splitOnSpace(round.before.currentChunk),
                                          fnIn.overlap \div 5)
              IN  C21_Closes(round)
                      => IF carried = <<>>
                         THEN round.after.currentChunk
                                  \in {round.sentence, <<" ">> \o round.sentence}
                         ELSE round.after.currentChunk
                                  = join(carried, <<" ">>) \o <<" ">>
                                        \o round.sentence

----------------------------------------------------------------------------
(* Oversized sentences (SpecChunk) *)

\* C22: a sentence longer than the chunk size is a chunk of its own, and
\* every chunk longer than the chunk size is one such sentence
C22_OversizedSentenceIsOwnChunk ==
    fnOut.done
        => LET sentences == splitSentences(fnIn.text)
               chunks == fnOut.value
               oversized == {trim(sentences[s]) : s \in
                                {t \in 1..Len(sentences) :
                                    Len(sentences[t]) > fnIn.chunkSize}}
           IN  /\ \A sentence \in oversized :
                     \E k \in 1..Len(chunks) : chunks[k] = sentence
               /\ \A k \in 1..Len(chunks) :
                     Len(chunks[k]) > fnIn.chunkSize => chunks[k] \in oversized

----------------------------------------------------------------------------
(* Short rows (SpecCsv) *)

\* the pieces of s between the occurrences of the string sep
RECURSIVE C23_SplitBy(_, _)
C23_SplitBy(s, sep) ==
    LET at == {i \in 1..(Len(s) - Len(sep) + 1) :
                  SubSeq(s, i, i + Len(sep) - 1) = sep}
    IN  IF at = {} THEN <<s>>
        ELSE LET first == CHOOSE i \in at : \A j \in at : i <= j
             IN  <<SubSeq(s, 1, first - 1)>>
                     \o C23_SplitBy(SubSeq(s, first + Len(sep), Len(s)), sep)

\* the data rows of the file that have fewer cells than the header row
C23_ShortRows(content) ==
    LET lines == C15_Lines(content)
    IN  {r \in 1..(Len(lines) - 1) :
            Len(C15_Cells(lines[r + 1])) < Len(C15_Cells(lines[1]))}

\* C23: a file with a data row of fewer fields than the header row parses
\* and is cached all the same, and the text of such a row names every
\* header once, in header order, with an empty value where the row has none
C23_ShortRowsPadded ==
    (fnOut.done /\ C23_ShortRows(CsvContent) # {})
        => LET lines == C15_Lines(CsvContent)
               headers == C15_Cells(lines[1])
               doc == fnOut.value.parse.doc
               rows == C23_SplitBy(doc.fullText, <<"\n", "\n">>)
           IN  /\ fnOut.value.parse.state = "resolved"
               /\ fnOut.value.parse.error = "none"
               /\ doc # NoDoc
               /\ documentCache[CacheKey("csv", NameCsvA)] = doc
               /\ Len(rows) = Len(lines) - 1
               /\ \A r \in C23_ShortRows(CsvContent) :
                     LET cells == C15_Cells(lines[r + 1])
                         named == C23_SplitBy(rows[r], <<" ", "|", " ">>)
                     IN  /\ Len(named) = Len(headers)
                         /\ \A i \in 1..Len(headers) :
                               named[i] = headers[i] \o <<":", " ">>
                                   \o (IF i <= Len(cells) THEN cells[i]
                                       ELSE <<>>)

\* a file with two headers and a row of one field has been parsed
C23_Witness ==
    /\ fnOut.done
    /\ CsvContent = <<"a", ",", "a", "\n", "a">>
    /\ fnOut.value.parse.doc.fullText
           = <<"a", ":", " ", "a", " ", "|", " ", "a", ":", " ">>
    /\ documentCache[CacheKey("csv", NameCsvA)] = fnOut.value.parse.doc

----------------------------------------------------------------------------
(* SpecPages: parseDocument of a tabular and of a paginated file whose     *)
(* text is long enough for several chunks of the default size: sentences   *)
(* of about a twenty-fifth of DefaultChunkSize characters                  *)

MaxSentences == 34

SentenceLengths == {DefaultChunkSize \div 25 - 1, DefaultChunkSize \div 25,
                    DefaultChunkSize \div 25 + 5}

\* a sentence of n characters
Sentence(n) == [i \in 1..(n - 1) |-> "a"] \o <<".">>

RECURSIVE Repeated(_, _)
Repeated(piece, k) == IF k = 0 THEN <<>> ELSE piece \o Repeated(piece, k - 1)

\* what pdf-parse extracts: k sentences of n characters
PagedText(n, k) == Repeated(Sentence(n) \o <<" ">>, k)

\* the header h, then k rows of one sentence of n characters
PagedCsv(n, k) == <<"h">> \o Repeated(<<"\n">> \o Sentence(n), k)

PagedStorage(n, k) ==
    [csv |-> Dir(Only(NameCsvA, File(PagedCsv(n, k), 0, FALSE))),
     pdf |-> Dir(Only(NamePdfA, File(PagedText(n, k), 1, TRUE)))]

InitPages ==
    Starting({PagedStorage(n, k) : n \in SentenceLengths, k \in 0..MaxSentences})

PagedName(type) == IF type = "csv" THEN NameCsvA ELSE NamePdfA

\* the outcome of parseDocument for each type, NoParse before it is called
PagedParses == IF fnOut.done THEN fnOut.value ELSE [t \in Types |-> NoParse]

\* parseDocument of the file of one type, up to await pdfParse
ParsePaged(type) ==
    /\ PagedParses[type].state = "none"
    /\ LET eff == parseDocument(PagedName(type), type, documentCache, fs,
                                nextInst)
       IN  /\ fnOut' = Result([PagedParses EXCEPT ![type] = eff])
           /\ Settle(CacheKey(type, PagedName(type)), eff, TRUE)
    /\ UNCHANGED <<fs, calls, started, fsChanges, fnIn>>

\* pdfParse settles and parsePDF runs to its end
PagedExtracted ==
    /\ PagedParses["pdf"].state = "extracting"
    /\ LET eff == parsePDFResume(NamePdfA, PagedParses["pdf"], nextInst)
       IN  /\ fnOut' = Result([PagedParses EXCEPT !["pdf"] = eff])
           /\ Settle(CacheKey("pdf", NamePdfA), eff, FALSE)
    /\ UNCHANGED <<fs, calls, started, fsChanges, fnIn>>

NextPages ==
    \/ \E type \in Types : ParsePaged(type)
    \/ PagedExtracted

SpecPages == InitPages /\ [][NextPages]_vars

\* C24: the chunks of every parsed document are numbered 0, 1, 2, ... in
\* their order; a tabular document has page count 1 and all its chunks on
\* page 1; chunk i of a paginated document is on page floor(i/3) + 1
C24_ChunksNumbered ==
    \A key \in Keys :
        LET doc == documentCache[key]
        IN  doc # NoDoc
                => /\ \A i \in 1..Len(doc.chunks) :
                         doc.chunks[i].chunkIndex = i - 1
                   /\ doc.type = "csv"
                         => /\ doc.pageCount = 1
                            /\ \A i \in 1..Len(doc.chunks) :
                                  doc.chunks[i].pageNumber = 1
                   /\ doc.type = "pdf"
                         => \A i \in 1..Len(doc.chunks) :
                               \E q \in 0..Len(doc.chunks) :
                                  /\ 3 * q <= doc.chunks[i].chunkIndex
                                  /\ doc.chunks[i].chunkIndex < 3 * (q + 1)
                                  /\ doc.chunks[i].pageNumber = q + 1

\* a document of each type has been parsed into more than three chunks
C24_Witness ==
    /\ Len(documentCache[CacheKey("csv", NameCsvA)].chunks) > 3
    /\ documentCache[CacheKey("csv", NameCsvA)].chunks[4].pageNumber = 1
    /\ Len(documentCache[CacheKey("pdf", NamePdfA)].chunks) > 6
    /\ documentCache[CacheKey("pdf", NamePdfA)].chunks[4].pageNumber = 2
    /\ documentCache[CacheKey("pdf", NamePdfA)].chunks[7].pageNumber = 3

----------------------------------------------------------------------------
(* Files missing under the root of the requested type (Spec) *)

\* no file of that name under the root of that type
C25_Missing(type, filename) ==
    \/ ~fs[type].exists
    \/ filename \notin DOMAIN fs[type].files
    \/ ~fs[type].files[filename].present

\* C25: parseDocument of a valid filename that is not cached and has no
\* file under the root of the requested type fails as not found, reads no
\* file and leaves the cache as it is, whatever the root of the other type
\* holds
C25_MissingFileIsNotFound ==
    [][\A c \in Slots :
          LET doc == CurrentDoc(calls'[c])
              key == CacheKey(doc.type, doc.filename)
          IN  (/\ BeginsParse(c)
               /\ validateFilename(doc.filename) = "ok"
               /\ documentCache[key] = NoDoc
               /\ C25_Missing(doc.type, doc.filename))
                  => /\ calls'[c].parse.state = "rejected"
                     /\ calls'[c].parse.error = "notFound"
                     /\ ~calls'[c].parse.read
                     /\ ~calls'[c].parse.wroteCache
                     /\ documentCache' = documentCache
                     /\ parseCount'[key] = parseCount[key]]_vars

\* a call has failed as not found for a name that is missing under the
\* root of its type and present under the root of the other type
C25_Witness ==
    \E c \in Slots : \E other \in Types :
        /\ fsChanges = 0
        /\ calls[c].pc = "await"
        /\ calls[c].parse.error = "notFound"
        /\ other # CurrentDoc(calls[c]).type
        /\ C25_Missing(CurrentDoc(calls[c]).type, CurrentDoc(calls[c]).filename)
        /\ ~C25_Missing(other, CurrentDoc(calls[c]).filename)

----------------------------------------------------------------------------
(* The cache over time (Spec) *)

\* C26: the document cache only grows: an entry, once present, stays
\* present and stays the same document, with the same text, chunks and
\* page count, whatever operation runs later
C26_CacheEntriesNeverChange ==
    [][\A key \in Keys :
          documentCache[key] # NoDoc
              => documentCache'[key] = documentCache[key]]_vars

----------------------------------------------------------------------------
(* The catalog and the cache (Spec) *)

\* call c is a list_documents call made in this step
ListsNow(c) ==
    calls'[c] # calls[c] /\ calls'[c].tool = "list_documents"

\* the file is in storage now, under the root of its type and with the
\* extension of its type
C27_InStorage(type, name) ==
    /\ fs[type].exists
    /\ name \in DOMAIN fs[type].files
    /\ fs[type].files[name].present
    /\ endsWith(toLowerCase(name), C17_Extension(type))

\* C27: list_documents leaves the cache as it is and lists the files that
\* are in storage at the call, cached or not: a cached document whose file
\* is gone is not listed, and parseDocument still returns it from the cache
C27_ListingIsFreshAndApartFromCache ==
    [][/\ \A c \in Slots :
             ListsNow(c)
                 => /\ documentCache' = documentCache
                    /\ returned' = returned
                    /\ parseCount' = parseCount
                    /\ calls'[c].pc = "done"
                    /\ \A type \in Types, name \in ArgNames :
                          C27_InStorage(type, name)
                              <=> \E i \in 1..Len(calls'[c].result.records) :
                                     calls'[c].result.records[i]
                                         = [filename |-> name, type |-> type]
       /\ \A c \in Slots :
             LET doc == CurrentDoc(calls'[c])
                 key == CacheKey(doc.type, doc.filename)
             IN  (/\ BeginsParse(c)
                  /\ validateFilename(doc.filename) = "ok"
                  /\ documentCache[key] # NoDoc)
                     => /\ calls'[c].parse.state = "resolved"
                        /\ calls'[c].parse.doc = documentCache[key]
                        /\ ~calls'[c].parse.accessedFs]_vars

\* the file of a cached document is gone from storage; a listing made
\* since does not name it, and a call made since was given the cached
\* document without a look at storage
C27_Witness ==
    \E c, d \in Slots :
        LET key == CacheKey("pdf", NamePdfA)
        IN  /\ documentCache[key] # NoDoc
            /\ ~C27_InStorage("pdf", NamePdfA)
            /\ C27_InStorage("csv", NameCsvA)
            /\ calls[c].tool = "list_documents" /\ calls[c].pc = "done"
            /\ calls[c].result.records
                   = <<[filename |-> NameCsvA, type |-> "csv"]>>
            /\ calls[d].tool = "get_document_content"
            /\ calls[d].filename = NamePdfA /\ calls[d].type = "pdf"
            /\ calls[d].parse.state = "resolved"
            /\ ~calls[d].parse.accessedFs
            /\ calls[d].parse.doc = documentCache[key]

----------------------------------------------------------------------------
(* A search with a filename and no type (SpecSearch) *)

\* the search_documentation calls given a filename and no type
C28_FilenameAlone ==
    {c \in Slots : /\ calls[c].tool = "search_documentation"
                   /\ calls[c].filename # <<>>
                   /\ calls[c].type = "none"}

----------------------------------------------------------------------------
(* SpecServers: one search request put to both servers: the second call   *)
(* is made with the arguments of the first, to the other server, while    *)
(* the first is still running                                             *)

Running == {c \in Slots : ~IsFree(c)}

CallSearchOnBoth ==
    /\ started < MaxActive
    /\ \E c \in Slots, server \in Servers, query \in Queries,
          filename \in ArgNames \cup {<<>>}, type \in Types \cup {"none"},
          topK \in TopKs :
          /\ \A d \in Running :
                /\ calls[d].server # server
                /\ calls[d].query = query
                /\ calls[d].filename = filename
                /\ calls[d].type = type
                /\ calls[d].topK = topK
          /\ SearchDocumentation(c, server, query, filename, type, topK)

NextServers ==
    \/ CallSearchOnBoth
    \/ \E c \in Slots : PdfParseSettles(c)
    \/ \E c \in Slots : SearchResumes(c)

SpecServers == InitSearch /\ [][NextServers]_vars

\* C29: two searches with the same query, filename, type and topK, one by
\* the stdio server and one by the http handler, over the same storage,
\* have the same candidate documents and return the same chunks in the
\* same order
C29_ServersSearchAlike ==
    \A c, d \in SearchesDone :
        (/\ calls[c].server = "stdio" /\ calls[d].server = "http"
         /\ calls[c].query = calls[d].query
         /\ calls[c].filename = calls[d].filename
         /\ calls[c].type = calls[d].type
         /\ calls[c].topK = calls[d].topK)
            => /\ calls[c].docs = calls[d].docs
               /\ calls[c].result.kind = calls[d].result.kind
               /\ calls[c].result.records = calls[d].result.records

----------------------------------------------------------------------------
(* The keys of the cache (Spec) *)

\* C30: a cache entry under the key of a type and a filename holds a
\* document of that type and filename, the filename is a valid one, and a
\* tabular and a paginated document of one filename have an entry each:
\* storing the one leaves the entry of the other as it is
C30_EntriesMatchTheirKeys ==
    /\ [](\A type \in Types, filename \in ArgNames :
             LET doc == documentCache[CacheKey(type, filename)]
             IN  doc # NoDoc
                     => /\ doc.type = type
                        /\ doc.filename = filename
                        /\ validateFilename(filename) = "ok")
    /\ [][\A filename \in ArgNames, type, other \in Types :
             (/\ type # other
              /\ documentCache'[<<type, filename>>]
                     # documentCache[<<type, filename>>])
                 => documentCache'[<<other, filename>>]
                        = documentCache[<<other, filename>>]]_vars

\* a tabular and a paginated document of the same filename are both cached
C30_Witness ==
    \E filename \in ArgNames :
        /\ documentCache[<<"csv", filename>>].type = "csv"
        /\ documentCache[<<"pdf", filename>>].type = "pdf"
        /\ documentCache[<<"csv", filename>>].filename = filename
        /\ documentCache[<<"pdf", filename>>].filename = filename

====
